---- MODULE Spec2Model ----
(***************************************************************************)
(* Model of app.py ("Santiago - Board Games Victory"): the game ledger     *)
(* kept in jogos.csv, the functions carregar_df, salvar_df, recalc_df and  *)
(* upsert_jogo, and the Streamlit handlers that call them.                 *)
(*                                                                         *)
(* Text is a sequence of one-character strings.  A numeric cell is a       *)
(* tagged value: Num(n), the missing value NaN, or Txt (a text that is no  *)
(* number).  Prices are whole currency units (59.0 is 59).  Every table    *)
(* and every store of the model carries the five columns of CAMPOS.        *)
(***************************************************************************)
EXTENDS Integers, Sequences, FiniteSets, TLC

VARIABLES
  arquivo_csv,  \* the store jogos.csv: [existe, linhas]
  df,           \* the caller's table object (script variable df) after the call
  chamada,      \* the last operation, its inputs, and the table it started from
  ret,          \* the table the last operation returned (and saved, in a handler)
  rel           \* the "para credito" report: [linhas, total_geral]

vars == <<arquivo_csv, df, chamada, ret, rel>>

\* ---------------------------------------------------------------- bounds
MaxLinhas == 2     \* rows a table may hold
MaxGanha == 2      \* cap on the running tally qtd_ganha
MaxQtd == 1        \* quantities typed into a form: 0..MaxQtd
MaxValor == 1      \* prices typed into a form: 0..MaxValor

DEFAULT_CREDITO == 59

CAMPOS == <<"nome", "qtd_ganha", "qtd_ficar", "qtd_credito", "valor_credito">>

\* ----------------------------------------------------------------- cells
Num(n) == [t |-> "num", v |-> n]
NaN == [t |-> "nan", v |-> 0]
Txt == [t |-> "txt", v |-> 0]
None == [t |-> "none", v |-> 0]

Str(s) == [t |-> "str", s |-> s]
NomeNaN == [t |-> "nan", s |-> <<>>]

Max(a, b) == IF a >= b THEN a ELSE b

\* ------------------------------------------------------------------ text
Maiusculas == <<"A","B","C","D","E","F","G","H","I","J","K","L","M",
                "N","O","P","Q","R","S","T","U","V","W","X","Y","Z">>
Minusculas == <<"a","b","c","d","e","f","g","h","i","j","k","l","m",
                "n","o","p","q","r","s","t","u","v","w","x","y","z">>
Digitos == <<"0","1","2","3","4","5","6","7","8","9">>

IsSpace(c) == c \in {" ", "\t", "\n", "\r"}

LowerChar(c) ==
  IF \E i \in 1..Len(Maiusculas) : Maiusculas[i] = c
  THEN Minusculas[CHOOSE i \in 1..Len(Maiusculas) : Maiusculas[i] = c]
  ELSE c

\* str.lower()
str_lower(s) == [i \in 1..Len(s) |-> LowerChar(s[i])]

RECURSIVE lstrip(_)
lstrip(s) == IF s # <<>> /\ IsSpace(Head(s)) THEN lstrip(Tail(s)) ELSE s

RECURSIVE rstrip(_)
rstrip(s) ==
  IF s # <<>> /\ IsSpace(s[Len(s)]) THEN rstrip(SubSeq(s, 1, Len(s) - 1)) ELSE s

\* str.strip()
str_strip(s) == rstrip(lstrip(s))

IsDigit(c) == \E i \in 1..Len(Digitos) : Digitos[i] = c
DigitVal(c) == (CHOOSE i \in 1..Len(Digitos) : Digitos[i] = c) - 1
AllDigits(s) == s # <<>> /\ \A i \in 1..Len(s) : IsDigit(s[i])

RECURSIVE IntVal(_)
IntVal(s) ==
  IF s = <<>> THEN 0
  ELSE IntVal(SubSeq(s, 1, Len(s) - 1)) * 10 + DigitVal(s[Len(s)])

RECURSIVE IntToStr(_)
IntToStr(n) ==
  IF n < 10 THEN <<Digitos[n + 1]>>
  ELSE IntToStr(n \div 10) \o <<Digitos[(n % 10) + 1]>>

RECURSIVE StripZeros(_)
StripZeros(s) ==
  IF s # <<>> /\ s[Len(s)] = "0" THEN StripZeros(SubSeq(s, 1, Len(s) - 1)) ELSE s

\* ------------------------------------------------- pandas.read_csv, to_csv
\* The texts read_csv takes for a missing value (keep_default_na).
NaValues ==
  { <<>>,
    <<"#","N","/","A">>, <<"#","N","/","A"," ","N","/","A">>, <<"#","N","A">>,
    <<"-","1",".","#","I","N","D">>, <<"-","1",".","#","Q","N","A","N">>,
    <<"-","N","a","N">>, <<"-","n","a","n">>,
    <<"1",".","#","I","N","D">>, <<"1",".","#","Q","N","A","N">>,
    <<"<","N","A",">">>, <<"N","/","A">>, <<"N","A">>, <<"N","U","L","L">>,
    <<"N","a","N">>, <<"n","/","a">>, <<"n","a","n">>, <<"n","u","l","l">> }

TrueValues == { <<"T","r","u","e">>, <<"T","R","U","E">>, <<"t","r","u","e">> }
FalseValues ==
  { <<"F","a","l","s","e">>, <<"F","A","L","S","E">>, <<"f","a","l","s","e">> }

\* Unsigned decimal literals; the parser skips surrounding white space.
IsIntLit(s) == AllDigits(str_strip(s))

IsFloatLit(s) ==
  LET u == str_strip(s) IN
  \E k \in 1..Len(u) :
    /\ u[k] = "."
    /\ AllDigits(SubSeq(u, 1, k - 1))
    /\ AllDigits(SubSeq(u, k + 1, Len(u)))

\* str() of the float64 a numeric literal parses to.
FloatText(s) ==
  LET u == str_strip(s) IN
  IF AllDigits(u) THEN IntToStr(IntVal(u)) \o <<".", "0">>
  ELSE
    LET k == CHOOSE k \in 1..Len(u) : u[k] = "."
        frac == StripZeros(SubSeq(u, k + 1, Len(u)))
    IN IntToStr(IntVal(SubSeq(u, 1, k - 1))) \o <<".">>
         \o (IF frac = <<>> THEN <<"0">> ELSE frac)

\* read_csv's type inference on the nome column: a column of integer
\* literals becomes int64, a column of numeric literals and missing values
\* float64, a column of boolean words bool; any other column keeps its
\* texts.  Each value is given by its str().
ler_nomes(col) ==
  LET idx == 1..Len(col)
      na(i) == col[i] \in NaValues
      presentes == {i \in idx : ~na(i)}
      colInt == presentes = idx /\ \A i \in idx : IsIntLit(col[i])
      colFloat == \A i \in presentes : IsIntLit(col[i]) \/ IsFloatLit(col[i])
      colBool == \A i \in presentes : col[i] \in TrueValues \cup FalseValues
  IN [i \in idx |->
        IF na(i) THEN NomeNaN
        ELSE IF colInt THEN Str(IntToStr(IntVal(str_strip(col[i]))))
        ELSE IF colFloat THEN Str(FloatText(col[i]))
        ELSE IF colBool
          THEN Str(IF col[i] \in TrueValues THEN <<"T","r","u","e">>
                   ELSE <<"F","a","l","s","e">>)
        ELSE Str(col[i])]

\* pd.read_csv: the rows of a file as a table.
read_csv(linhas) ==
  LET nomes == ler_nomes([i \in 1..Len(linhas) |-> linhas[i].nome])
  IN [i \in 1..Len(linhas) |-> [linhas[i] EXCEPT !.nome = nomes[i]]]

\* DataFrame.to_csv(index=False): a missing value is written as the empty
\* text, every other value as its str().
to_csv(tab) ==
  [i \in 1..Len(tab) |->
     [tab[i] EXCEPT !.nome = IF tab[i].nome.t = "nan" THEN <<>> ELSE tab[i].nome.s]]

\* pd.to_numeric(errors="coerce").fillna(0).astype(int)
to_numeric_int(c) == IF c.t = "num" THEN c ELSE Num(0)

\* pd.to_numeric(errors="coerce").fillna(DEFAULT_CREDITO).astype(float)
to_numeric_float(c) == IF c.t = "num" THEN c ELSE Num(DEFAULT_CREDITO)

\* Series.astype(str): NaN becomes the text "nan".
astype_str(n) == IF n.t = "nan" THEN <<"n","a","n">> ELSE n.s

\* ------------------------------------------------------------- recalc_df
\* A text in qtd_ganha or qtd_ficar makes the column an object column of
\* texts, and the subtraction raises TypeError.
ErroDeTipo(tab) ==
  \E i \in 1..Len(tab) : tab[i].qtd_ganha.t = "txt" \/ tab[i].qtd_ficar.t = "txt"

\* (qtd_ganha - qtd_ficar).clip(lower=0) of one row; NaN stays NaN.
credito_linha(r) ==
  IF r.qtd_ganha.t = "num" /\ r.qtd_ficar.t = "num"
  THEN Num(Max(0, r.qtd_ganha.v - r.qtd_ficar.v))
  ELSE NaN

\* fillna(DEFAULT_CREDITO).replace(0, DEFAULT_CREDITO) of one cell; in a
\* column that holds a text the numbers are texts too, and replace(0, ..)
\* matches none of them.
valor_linha(c, colTexto) ==
  IF c.t = "nan" THEN Num(DEFAULT_CREDITO)
  ELSE IF c.t = "num" /\ c.v = 0 /\ ~colTexto THEN Num(DEFAULT_CREDITO)
  ELSE c

\* recalc_df adding the recomputed credit to the stored one.
recalc_df_acumula(tab) ==
  LET colTexto == \E j \in 1..Len(tab) : tab[j].valor_credito.t = "txt"
  IN [i \in 1..Len(tab) |->
        [tab[i] EXCEPT !.qtd_credito = Num(@.v + credito_linha(tab[i]).v),
                       !.valor_credito = valor_linha(tab[i].valor_credito, colTexto)]]

recalc_df(tab) ==
  LET colTexto == \E j \in 1..Len(tab) : tab[j].valor_credito.t = "txt"
  IN [i \in 1..Len(tab) |->
        [tab[i] EXCEPT !.qtd_credito = credito_linha(tab[i]),
                       !.valor_credito = valor_linha(tab[i].valor_credito, colTexto)]]

\* ----------------------------------------------------------- carregar_df
carregar_df(arq) ==
  IF arq.existe
  THEN LET lido == read_csv(arq.linhas) IN
       recalc_df([i \in 1..Len(lido) |->
         [nome |-> Str(str_strip(astype_str(lido[i].nome))),
          qtd_ganha |-> to_numeric_int(lido[i].qtd_ganha),
          qtd_ficar |-> to_numeric_int(lido[i].qtd_ficar),
          qtd_credito |-> to_numeric_int(lido[i].qtd_credito),
          valor_credito |-> to_numeric_float(lido[i].valor_credito)]])
  ELSE recalc_df(<<>>)

\* ------------------------------------------------------------- salvar_df
salvar_df(tab) == [existe |-> TRUE, linhas |-> to_csv(recalc_df(tab))]

\* ----------------------------------------------------------- upsert_jogo
\* nome = (nome or "").strip()
nome_limpo(nome) == str_strip(nome)

\* mask = df["nome"].str.lower() == nome.lower()
mask(tab, nome) ==
  {i \in 1..Len(tab) : str_lower(astype_str(tab[i].nome)) = str_lower(nome)}

\* linha_nova dropping the initial qtd_ficar.
linha_nova_sem_ficar(nome, qtd_ganha, qtd_ficar, valor_credito) ==
  [nome |-> Str(nome),
   qtd_ganha |-> IF qtd_ganha.t = "none" THEN Num(0) ELSE Num(qtd_ganha.v),
   qtd_ficar |-> Num(0),
   qtd_credito |-> Num(0),
   valor_credito |-> IF valor_credito.t = "none" THEN Num(DEFAULT_CREDITO)
                     ELSE Num(valor_credito.v)]

\* The row of a new record; qtd_credito is a placeholder.
linha_nova(nome, qtd_ganha, qtd_ficar, valor_credito) ==
  [nome |-> Str(nome),
   qtd_ganha |-> IF qtd_ganha.t = "none" THEN Num(0) ELSE Num(qtd_ganha.v),
   qtd_ficar |-> IF qtd_ficar.t = "none" THEN Num(0) ELSE Num(qtd_ficar.v),
   qtd_credito |-> Num(0),
   valor_credito |-> IF valor_credito.t = "none" THEN Num(DEFAULT_CREDITO)
                     ELSE Num(valor_credito.v)]

\* linha_atualizada adding qtd_ficar to the stored value, as it does qtd_ganha.
linha_atualizada_soma(r, qtd_ganha, qtd_ficar, valor_credito) ==
  [r EXCEPT
     !.qtd_ganha = IF qtd_ganha.t = "none" THEN @ ELSE Num(@.v + qtd_ganha.v),
     !.qtd_ficar = IF qtd_ficar.t = "none" THEN @ ELSE Num(@.v + qtd_ficar.v),
     !.valor_credito = IF valor_credito.t = "none" THEN @ ELSE Num(valor_credito.v)]

\* The update of the matching row, made in place with df.at.
linha_atualizada(r, qtd_ganha, qtd_ficar, valor_credito) ==
  [r EXCEPT
     !.qtd_ganha = IF qtd_ganha.t = "none" THEN @ ELSE Num(@.v + qtd_ganha.v),
     !.qtd_ficar = IF qtd_ficar.t = "none" THEN @ ELSE Num(qtd_ficar.v),
     !.valor_credito = IF valor_credito.t = "none" THEN @ ELSE Num(valor_credito.v)]

\* idx = df.index[mask][0]
primeiro(m) == CHOOSE i \in m : \A j \in m : i <= j

\* The table upsert_jogo holds right before its recalc_df.
upsert_antes_recalc(tab, nome, qtd_ganha, qtd_ficar, valor_credito) ==
  LET n == nome_limpo(nome)
      m == mask(tab, n)
  IN IF m = {}
     THEN tab \o <<linha_nova(n, qtd_ganha, qtd_ficar, valor_credito)>>
     ELSE [tab EXCEPT ![primeiro(m)] =
             linha_atualizada(@, qtd_ganha, qtd_ficar, valor_credito)]

upsert_jogo(tab, nome, qtd_ganha, qtd_ficar, valor_credito) ==
  IF nome_limpo(nome) = <<>> THEN tab
  ELSE recalc_df(upsert_antes_recalc(tab, nome, qtd_ganha, qtd_ficar, valor_credito))

\* The caller's table object after upsert_jogo: the update branch writes
\* into it, the insert branch builds a new table with pd.concat.
upsert_argumento(tab, nome, qtd_ganha, qtd_ficar, valor_credito) ==
  IF nome_limpo(nome) = <<>> \/ mask(tab, nome_limpo(nome)) = {} THEN tab
  ELSE upsert_antes_recalc(tab, nome, qtd_ganha, qtd_ficar, valor_credito)

\* ------------------------------------------------ report "para credito"
RECURSIVE soma_total(_)
soma_total(linhas) ==
  IF linhas = <<>> THEN 0
  ELSE Head(linhas).total_credito + soma_total(Tail(linhas))

\* tem_credito with >= for >.
tem_credito_ou_zero(r) == r.qtd_credito.v >= 0

tem_credito(r) == r.qtd_credito.v > 0

\* df_credito = df[df["qtd_credito"] > 0] with the column total_credito,
\* and total_geral.
relatorio_credito(tab) ==
  LET sel == SelectSeq(tab, tem_credito)
      linhas == [i \in 1..Len(sel) |->
                   [nome |-> sel[i].nome.s,
                    qtd_ganha |-> sel[i].qtd_ganha.v,
                    qtd_ficar |-> sel[i].qtd_ficar.v,
                    qtd_credito |-> sel[i].qtd_credito.v,
                    valor_credito |-> sel[i].valor_credito.v,
                    total_credito |-> sel[i].qtd_credito.v * sel[i].valor_credito.v]]
  IN [linhas |-> linhas,
      total_geral |-> IF linhas # <<>> THEN soma_total(linhas) ELSE 0]

\* ---------------------------------------------------------------- inputs
\* Texts typed into "Nome do jogo".
NomesDigitados ==
  { <<>>, <<" ">>, <<"a">>, <<" ", "A">>, <<"N", "A">>, <<"0", "0">> }

QtdDigitadas == 0..MaxQtd
ValoresDigitados == 0..MaxValor

SemArgs(op, antes) ==
  [op |-> op, nome |-> <<>>, qtd_ganha |-> None, qtd_ficar |-> None,
   valor_credito |-> None, antes |-> antes]

DentroDosLimites(tab) ==
  /\ Len(tab) <= MaxLinhas
  /\ \A i \in 1..Len(tab) : tab[i].qtd_ganha.v <= MaxGanha

\* ------------------------------------------------------------- handlers
\* The state when the app starts with no jogos.csv: every script run loads
\* the table and renders the report.
Init ==
  /\ arquivo_csv = [existe |-> FALSE, linhas |-> <<>>]
  /\ df = carregar_df(arquivo_csv)
  /\ chamada = SemArgs("inicio", <<>>)
  /\ ret = <<>>
  /\ rel = relatorio_credito(carregar_df(arquivo_csv))

\* Form "Cadastrar novo jogo": upsert_jogo on antes, the table line 104
\* loaded, then salvar_df; the run ends with the table line 148 loads.
Cadastrar(antes, nome, qtd_ganha, qtd_ficar, valor_credito) ==
  LET novo == upsert_jogo(antes, nome, Num(qtd_ganha), Num(qtd_ficar), Num(valor_credito))
  IN /\ DentroDosLimites(novo)
     /\ arquivo_csv' = salvar_df(novo)
     /\ df' = carregar_df(arquivo_csv')
     /\ ret' = novo
     /\ chamada' = SemArgs("cadastrar", <<>>)
     /\ rel' = relatorio_credito(df')

\* nomes = sorted(df["nome"].dropna().unique().tolist())
nomes_do(tab) == {tab[i].nome.s : i \in 1..Len(tab)}

\* Form "Atualizar jogo existente": the target is picked among the names of
\* antes, the table line 104 loaded.
Atualizar(antes, alvo, add_ganha, set_ficar, set_valor) ==
  LET novo == upsert_jogo(antes, alvo, Num(add_ganha), Num(set_ficar), Num(set_valor))
      reg == antes[CHOOSE i \in 1..Len(antes) :
                     /\ antes[i].nome.s = alvo
                     /\ \A j \in 1..(i - 1) : antes[j].nome.s # alvo]
  IN /\ alvo \in nomes_do(antes)
     \* number_input(min_value=0, value=...) raises on a negative default
     /\ reg.qtd_ficar.v >= 0 /\ reg.valor_credito.v >= 0
     /\ DentroDosLimites(novo)
     /\ arquivo_csv' = salvar_df(novo)
     /\ df' = carregar_df(arquivo_csv')
     /\ ret' = novo
     /\ chamada' = SemArgs("atualizar", <<>>)
     /\ rel' = relatorio_credito(df')

\* Button "Forcar salvar agora": carregar_df, then salvar_df.
ForcarSalvar ==
  LET df_atual == carregar_df(arquivo_csv)
  IN /\ arquivo_csv' = salvar_df(df_atual)
     /\ df' = carregar_df(arquivo_csv')
     /\ ret' = df_atual
     /\ chamada' = SemArgs("forcar_salvar", <<>>)
     /\ rel' = relatorio_credito(df')

\* A script run with no button pressed: the table is loaded and the
\* reports are rendered; nothing is saved.
Relatorios ==
  LET tab == carregar_df(arquivo_csv)
  IN /\ arquivo_csv' = arquivo_csv
     /\ df' = tab
     /\ ret' = tab
     /\ chamada' = SemArgs("relatorios", <<>>)
     /\ rel' = relatorio_credito(tab)

\* ----------------------------------------------------------------- import
\* Rows of an uploaded file: a plain row with one cell changed at a time.
NomesUpload == { <<" ", "A">>, <<"0", "0">> }
CelulasQtd == {NaN, Txt} \cup {Num(n) : n \in (0 - 1)..MaxQtd}
CelulasValor == {NaN, Txt} \cup {Num(n) : n \in (0 - 1)..MaxValor}

LinhaSimples(nome) ==
  [nome |-> nome, qtd_ganha |-> Num(MaxQtd), qtd_ficar |-> Num(0),
   qtd_credito |-> Num(0), valor_credito |-> Num(MaxValor)]

LinhasUpload ==
  UNION { {[LinhaSimples(n) EXCEPT !.qtd_ganha = c] : c \in CelulasQtd}
          \cup {[LinhaSimples(n) EXCEPT !.qtd_ficar = c] : c \in CelulasQtd}
          \cup {[LinhaSimples(n) EXCEPT !.qtd_credito = Num(MaxGanha)]}
          \cup {[LinhaSimples(n) EXCEPT !.valor_credito = c] : c \in CelulasValor}
          : n \in NomesUpload }

SeqsAte(S, n) == UNION {[1..k -> S] : k \in 0..n}

Uploads == {<<>>} \cup {<<r>> : r \in LinhasUpload}

\* "Importar/Restaurar CSV": read_csv, recalc_df, salvar_df.  A text in a
\* quantity column raises TypeError in recalc_df: the run ends there and
\* the store is left as it was.
Importar(up) ==
  LET tmp == recalc_df(read_csv(up))
  IN /\ ~ErroDeTipo(read_csv(up))
     /\ arquivo_csv' = salvar_df(tmp)
     /\ df' = carregar_df(arquivo_csv')
     /\ ret' = tmp
     /\ chamada' = SemArgs("importar", <<>>)
     /\ rel' = relatorio_credito(df')

Next ==
  LET antes == carregar_df(arquivo_csv) IN
  \/ \E nome \in NomesDigitados, g \in QtdDigitadas, f \in QtdDigitadas,
        v \in ValoresDigitados : Cadastrar(antes, nome, g, f, v)
  \/ \E alvo \in nomes_do(antes), g \in QtdDigitadas,
        f \in QtdDigitadas, v \in ValoresDigitados : Atualizar(antes, alvo, g, f, v)
  \/ ForcarSalvar
  \/ Relatorios

Spec == Init /\ [][Next]_vars

NextImport ==
  \/ Next
  \/ \E up \in Uploads : Importar(up)

SpecImport == Init /\ [][NextImport]_vars

\* ------------------------------------------- the functions, called alone
\* Tables carregar_df returns: distinct names, quantities and prices in range.
CelulasGanha == {Num(n) : n \in 0..MaxQtd}
NomesAmostra == { <<"a">>, <<"N", "A">> }

LinhasAmostra ==
  { [nome |-> n, qtd_ganha |-> g, qtd_ficar |-> f, qtd_credito |-> Num(0),
     valor_credito |-> v] :
    n \in NomesAmostra, g \in CelulasGanha, f \in CelulasGanha,
    v \in {NaN} \cup {Num(k) : k \in 1..MaxValor} }

NomesDistintos(linhas) ==
  \A i, j \in 1..Len(linhas) : i # j => linhas[i].nome # linhas[j].nome

TabelasCarregadas ==
  { carregar_df([existe |-> TRUE, linhas |-> s]) :
      s \in {t \in SeqsAte(LinhasAmostra, MaxLinhas) : NomesDistintos(t)} }

\* Tables read_csv returns for an uploaded file.
TabelasCruas == { read_csv(s) : s \in SeqsAte(LinhasUpload, MaxLinhas) }

ArgsQtd == {None} \cup {Num(n) : n \in QtdDigitadas}
ArgsValor == {None} \cup {Num(n) : n \in ValoresDigitados}

InitFn ==
  /\ arquivo_csv = [existe |-> FALSE, linhas |-> <<>>]
  /\ \/ df \in TabelasCarregadas /\ chamada = SemArgs("carregar_df", <<>>)
     \/ df \in TabelasCruas /\ chamada = SemArgs("read_csv", <<>>)
  /\ ret = df
  /\ rel = relatorio_credito(<<>>)

Carregada == chamada.op = "carregar_df"

\* The caller's table object after recalc_df: line 44 copies it first.
recalc_argumento(tab) == tab

FnRecalc ==
  /\ chamada.op \in {"carregar_df", "read_csv"}
  /\ ~ErroDeTipo(df)
  /\ ret' = recalc_df(df)
  /\ df' = recalc_argumento(df)
  /\ chamada' = SemArgs("recalc_df", df)
  /\ UNCHANGED <<arquivo_csv, rel>>

FnUpsert(nome, qtd_ganha, qtd_ficar, valor_credito) ==
  /\ Carregada
  /\ ret' = upsert_jogo(df, nome, qtd_ganha, qtd_ficar, valor_credito)
  /\ df' = upsert_argumento(df, nome, qtd_ganha, qtd_ficar, valor_credito)
  /\ chamada' = [op |-> "upsert_jogo", nome |-> nome, qtd_ganha |-> qtd_ganha,
                 qtd_ficar |-> qtd_ficar, valor_credito |-> valor_credito,
                 antes |-> df]
  /\ UNCHANGED <<arquivo_csv, rel>>

FnRelatorio ==
  /\ Carregada
  /\ rel' = relatorio_credito(df)
  /\ ret' = df
  /\ df' = df
  /\ chamada' = SemArgs("relatorio_credito", df)
  /\ UNCHANGED arquivo_csv

NextFn ==
  \/ FnRecalc
  \/ \E nome \in NomesDigitados, g \in ArgsQtd, f \in ArgsQtd, v \in ArgsValor :
       FnUpsert(nome, g, f, v)
  \/ FnRelatorio

SpecFn == InitFn /\ [][NextFn]_vars

\* ================================================================ claims
Opc(arg, padrao) == IF arg.t = "none" THEN padrao ELSE arg.v

\* Rows of tab whose name equals nome after trimming, letter case ignored.
Alvos(tab, nome) ==
  {i \in 1..Len(tab) : str_lower(tab[i].nome.s) = str_lower(str_strip(nome))}

Menor(S) == CHOOSE i \in S : \A j \in S : i <= j

UpsertComNome ==
  chamada.op = "upsert_jogo" /\ str_strip(chamada.nome) # <<>>

C1_Caso == UpsertComNome /\ Alvos(chamada.antes, chamada.nome) # {}

\* C1 as stated: an upsert on a matching name adds the delta to quantity_won,
\* sets quantity_keep and credit_value to exactly the given values, keeps
\* every field whose parameter is not supplied, and recomputes quantity_credit.
C1_ValorExato ==
  C1_Caso =>
    LET i == Menor(Alvos(chamada.antes, chamada.nome))
        a == chamada.antes[i]
        r == ret[i]
    IN /\ r.qtd_ganha = Num(a.qtd_ganha.v + Opc(chamada.qtd_ganha, 0))
       /\ r.qtd_ficar = Num(Opc(chamada.qtd_ficar, a.qtd_ficar.v))
       /\ r.valor_credito = Num(Opc(chamada.valor_credito, a.valor_credito.v))
       /\ r.qtd_credito = Num(Max(0, r.qtd_ganha.v - r.qtd_ficar.v))

\* C1 amended: as C1, except that a given credit_value of 0 is stored as the
\* default 59.0; any other given credit_value is stored as given.
C1_Atualiza ==
  C1_Caso =>
    LET i == Menor(Alvos(chamada.antes, chamada.nome))
        a == chamada.antes[i]
        r == ret[i]
        dado == chamada.valor_credito
    IN /\ Len(ret) = Len(chamada.antes)
       /\ r.nome = a.nome
       /\ r.qtd_ganha = Num(a.qtd_ganha.v + Opc(chamada.qtd_ganha, 0))
       /\ r.qtd_ficar = Num(Opc(chamada.qtd_ficar, a.qtd_ficar.v))
       /\ r.valor_credito =
            IF dado.t = "none" THEN a.valor_credito
            ELSE IF dado.v = 0 THEN Num(59) ELSE Num(dado.v)
       /\ r.qtd_credito = Num(Max(0, r.qtd_ganha.v - r.qtd_ficar.v))

\* An update through a name that differs in case and white space from the
\* stored one, with a delta, a new keep and the price 0.
C1_Witness ==
  /\ C1_Caso
  /\ LET i == Menor(Alvos(chamada.antes, chamada.nome))
         a == chamada.antes[i]
     IN /\ i = 2
        /\ chamada.nome # a.nome.s
        /\ a.qtd_ganha.v > 0
        /\ chamada.qtd_ganha.t = "num" /\ chamada.qtd_ganha.v > 0
        /\ chamada.qtd_ficar.t = "num" /\ chamada.qtd_ficar.v # a.qtd_ficar.v
        /\ chamada.valor_credito.t = "num" /\ chamada.valor_credito.v = 0
        /\ a.valor_credito.v # 59
        /\ ret[i].valor_credito.v = 59

C7_Caso == UpsertComNome /\ Alvos(chamada.antes, chamada.nome) = {}

\* C7: an upsert on a non-blank name that matches no row adds exactly one
\* row: the trimmed name, quantity_won the delta or 0, quantity_keep the given
\* value or 0, credit_value the given value, or 59.0 when none or 0 is given,
\* and quantity_credit = max(0, won - keep).
C7_Insere ==
  C7_Caso =>
    LET n == Len(chamada.antes)
        r == ret[n + 1]
        dado == chamada.valor_credito
    IN /\ Len(ret) = n + 1
       /\ \A i \in 1..n : ret[i] = chamada.antes[i]
       /\ r.nome = Str(str_strip(chamada.nome))
       /\ r.qtd_ganha = Num(Opc(chamada.qtd_ganha, 0))
       /\ r.qtd_ficar = Num(Opc(chamada.qtd_ficar, 0))
       /\ r.valor_credito =
            IF dado.t = "none" \/ dado.v = 0 THEN Num(59) ELSE Num(dado.v)
       /\ r.qtd_credito = Num(Max(0, r.qtd_ganha.v - r.qtd_ficar.v))

\* An insert after an existing row, through an untrimmed name, with the
\* price 0 given and a keep above the won quantity.
C7_Witness ==
  /\ C7_Caso
  /\ Len(chamada.antes) = 1
  /\ chamada.nome = <<" ", "A">>
  /\ chamada.valor_credito = Num(0)
  /\ chamada.qtd_ficar.t = "num" /\ chamada.qtd_ficar.v > Opc(chamada.qtd_ganha, 0)
  /\ ret[2].valor_credito = Num(59)
  /\ ret[2].qtd_credito = Num(0)

RECURSIVE SomaDe(_, _)
SomaDe(tab, S) ==
  IF S = {} THEN 0
  ELSE LET i == Menor(S)
       IN tab[i].qtd_credito.v * tab[i].valor_credito.v + SomaDe(tab, S \ {i})

\* C8: the "para credito" report of a loaded table holds exactly the rows with
\* quantity_credit > 0, in order, each with total_credit = quantity_credit x
\* credit_value; total_geral is the sum of total_credit over those rows, 0 when
\* there is none; the table is left as it was.
C8_Relatorio ==
  chamada.op = "relatorio_credito" =>
    LET tab == chamada.antes
        com == {i \in 1..Len(tab) : tab[i].qtd_credito.v > 0}
        pos(i) == Cardinality({j \in com : j <= i})
    IN /\ Len(rel.linhas) = Cardinality(com)
       /\ \A i \in com :
            rel.linhas[pos(i)] =
              [nome |-> tab[i].nome.s, qtd_ganha |-> tab[i].qtd_ganha.v,
               qtd_ficar |-> tab[i].qtd_ficar.v, qtd_credito |-> tab[i].qtd_credito.v,
               valor_credito |-> tab[i].valor_credito.v,
               total_credito |-> tab[i].qtd_credito.v * tab[i].valor_credito.v]
       /\ rel.total_geral = SomaDe(tab, com)
       /\ (com = {} => rel.total_geral = 0)
       /\ df = tab
       /\ ~arquivo_csv.existe

\* A report of a two-row table that keeps the second row only.
C8_Witness ==
  /\ chamada.op = "relatorio_credito"
  /\ Len(chamada.antes) = 2
  /\ chamada.antes[1].qtd_credito.v = 0
  /\ Len(rel.linhas) = 1
  /\ rel.linhas[1].nome = chamada.antes[2].nome.s
  /\ rel.total_geral = 59

\* C9: recalc_df applied to its own result returns it unchanged, and the
\* table passed to recalc_df is left as it was.
C9_Idempotente ==
  chamada.op = "recalc_df" =>
    /\ recalc_df(ret) = ret
    /\ df = chamada.antes

\* A recompute that changed the table: a stale credit and a zero price.
C9_Witness ==
  /\ chamada.op = "recalc_df"
  /\ \E i \in 1..Len(ret) :
       /\ chamada.antes[i].qtd_credito # ret[i].qtd_credito
       /\ ret[i].qtd_credito.v > 0
       /\ chamada.antes[i].valor_credito = Num(0)
       /\ ret[i].valor_credito = Num(59)

\* ------------------------------------------------- claims on the handlers
CamposDe(r) == <<r.nome, r.qtd_ganha, r.qtd_ficar, r.valor_credito>>

\* C2: no two rows of the ledger have names that are equal after trimming,
\* letter case ignored, in any state reached by the handlers without import.
C2_NomesUnicos ==
  LET tab == carregar_df(arquivo_csv)
  IN \A i, j \in 1..Len(tab) :
       i # j => str_lower(str_strip(tab[i].nome.s)) # str_lower(str_strip(tab[j].nome.s))

BemFormada(tab) ==
  /\ \A i \in 1..Len(tab) :
       /\ tab[i].nome.t = "str"
       /\ tab[i].nome.s # <<>>
       /\ tab[i].nome.s = str_strip(tab[i].nome.s)
       /\ tab[i].qtd_ganha.t = "num" /\ tab[i].qtd_ganha.v >= 0
       /\ tab[i].qtd_ficar.t = "num" /\ tab[i].qtd_ficar.v >= 0
       /\ tab[i].qtd_credito.t = "num" /\ tab[i].qtd_credito.v >= 0
       /\ tab[i].valor_credito.t = "num" /\ tab[i].valor_credito.v > 0
  /\ \A i, j \in 1..Len(tab) :
       i # j => str_lower(tab[i].nome.s) # str_lower(tab[j].nome.s)

\* C6: saving a well-formed table and loading the store returns recompute of
\* the table, rows and field values as they were.
C6_IdaEVolta ==
  (chamada.op \in {"cadastrar", "atualizar", "forcar_salvar"} /\ BemFormada(ret)) =>
    /\ arquivo_csv = salvar_df(ret)
    /\ carregar_df(arquivo_csv) = recalc_df(ret)

\* C10: no handler other than import removes a row; an insert adds one row
\* and leaves every other row as it was, an update changes at most its
\* target, and a forced save changes nothing.
C10_Passo ==
  LET a == carregar_df(arquivo_csv)
      b == carregar_df(arquivo_csv')
      mudou == {i \in 1..Len(a) : i <= Len(b) /\ CamposDe(a[i]) # CamposDe(b[i])}
  IN /\ Len(b) \in {Len(a), Len(a) + 1}
     /\ Len(b) = Len(a) + 1 => mudou = {}
     /\ Cardinality(mudou) <= 1
     /\ chamada'.op \in {"forcar_salvar", "relatorios"} => (Len(b) = Len(a) /\ mudou = {})

C10_SoOAlvoMuda == [][C10_Passo]_vars

TabelasDoEstado == {df, ret, read_csv(arquivo_csv.linhas)}

\* C3: every row of a table that load or upsert returned, or that save wrote,
\* has quantity_credit = max(0, quantity_won - quantity_keep).
C3_CreditoDerivado ==
  \A tab \in TabelasDoEstado : \A i \in 1..Len(tab) :
    /\ tab[i].qtd_credito.t = "num"
    /\ tab[i].qtd_credito.v = Max(0, tab[i].qtd_ganha.v - tab[i].qtd_ficar.v)

\* C4: every row of a recomputed table has a credit_value that is a number
\* greater than 0.
C4_ValorPositivo ==
  \A tab \in TabelasDoEstado : \A i \in 1..Len(tab) :
    /\ tab[i].valor_credito.t = "num"
    /\ tab[i].valor_credito.v > 0

\* C5: quantity_won, quantity_keep and quantity_credit of every row of a
\* recomputed table are integers >= 0.
C5_QuantidadesNaturais ==
  \A tab \in TabelasDoEstado : \A i \in 1..Len(tab) :
    \A c \in {tab[i].qtd_ganha, tab[i].qtd_ficar, tab[i].qtd_credito} :
      c.t = "num" /\ c.v >= 0

====
